---- MODULE Spec2Model ----
(***************************************************************************)
(* Model of the tool-call layer of stripe-mcp (src/src/index.ts): the      *)
(* CallToolRequestSchema handler with its two tools, search_invoices and   *)
(* create_credit_note, and the query builder buildMetadataSearchQuery.     *)
(*                                                                         *)
(* JavaScript strings are modelled as sequences of one-character strings,  *)
(* so that split, trim, includes, startsWith and template concatenation    *)
(* are computed character by character as the code computes them.          *)
(***************************************************************************)
EXTENDS Integers, Sequences, FiniteSets, TLC

VARIABLES pc, req, issued, responses, outcome, qInput, qResult

vars == <<pc, req, issued, responses, outcome, qInput, qResult>>

(***************************************************************************)
(* Bounds of the model.                                                    *)
(***************************************************************************)
\* longest input string given to buildMetadataSearchQuery in SpecQuery
MaxLen == 5
\* invoice totals returned by the remote fetch range over 0..MaxTotal
MaxTotal == 2
\* number of invoices in a remote search result ranges over 0..MaxResults
MaxResults == 1

(***************************************************************************)
(* String literals of the source, as character sequences.                  *)
(***************************************************************************)
\* index.ts:128  "Invalid metadata format. Expected 'key:value' (e.g., 'order_id:12345')"
MSG_BAD_FORMAT ==
    <<"I","n","v","a","l","i","d"," ","m","e","t","a","d","a","t","a"," ","f","o","r","m","a","t","."," ","E","x","p","e","c","t","e","d"," ","'","k","e","y",":","v","a","l","u","e","'"," ","(","e",".","g",".",","," ","'","o","r","d","e","r","_","i","d",":","1","2","3","4","5","'",")">>
\* index.ts:136  "Metadata key and value cannot be empty"
MSG_EMPTY_KV ==
    <<"M","e","t","a","d","a","t","a"," ","k","e","y"," ","a","n","d"," ","v","a","l","u","e"," ","c","a","n","n","o","t"," ","b","e"," ","e","m","p","t","y">>
\* index.ts:331  "Missing required parameter: metadata"
MSG_MISSING_METADATA ==
    <<"M","i","s","s","i","n","g"," ","r","e","q","u","i","r","e","d"," ","p","a","r","a","m","e","t","e","r",":"," ","m","e","t","a","d","a","t","a">>
\* index.ts:379  "Invalid search query: "
PFX_INVALID_SEARCH ==
    <<"I","n","v","a","l","i","d"," ","s","e","a","r","c","h"," ","q","u","e","r","y",":"," ">>
\* index.ts:384  "Stripe API error: "
PFX_STRIPE_API ==
    <<"S","t","r","i","p","e"," ","A","P","I"," ","e","r","r","o","r",":"," ">>
\* index.ts:389  "metadata"
NEEDLE_METADATA ==
    <<"m","e","t","a","d","a","t","a">>
\* index.ts:396  "Unexpected error: "
PFX_UNEXPECTED ==
    <<"U","n","e","x","p","e","c","t","e","d"," ","e","r","r","o","r",":"," ">>
\* index.ts:397  "Unknown error"
MSG_UNKNOWN ==
    <<"U","n","k","n","o","w","n"," ","e","r","r","o","r">>
\* index.ts:412  "Missing required parameter: invoice_id"
MSG_MISSING_INVOICE_ID ==
    <<"M","i","s","s","i","n","g"," ","r","e","q","u","i","r","e","d"," ","p","a","r","a","m","e","t","e","r",":"," ","i","n","v","o","i","c","e","_","i","d">>
\* index.ts:417  "in_"
PFX_IN ==
    <<"i","n","_">>
\* index.ts:420  "Invalid invoice_id format. Invoice IDs must start with 'in_'"
MSG_BAD_INVOICE_ID ==
    <<"I","n","v","a","l","i","d"," ","i","n","v","o","i","c","e","_","i","d"," ","f","o","r","m","a","t","."," ","I","n","v","o","i","c","e"," ","I","D","s"," ","m","u","s","t"," ","s","t","a","r","t"," ","w","i","t","h"," ","'","i","n","_","'">>
\* index.ts:427  "duplicate"
R_DUPLICATE ==
    <<"d","u","p","l","i","c","a","t","e">>
\* index.ts:428  "fraudulent"
R_FRAUDULENT ==
    <<"f","r","a","u","d","u","l","e","n","t">>
\* index.ts:429  "order_change"
R_ORDER_CHANGE ==
    <<"o","r","d","e","r","_","c","h","a","n","g","e">>
\* index.ts:430  "product_unsatisfactory"
R_PRODUCT_UNSATISFACTORY ==
    <<"p","r","o","d","u","c","t","_","u","n","s","a","t","i","s","f","a","c","t","o","r","y">>
\* index.ts:435  "Invalid reason. Must be one of: "
PFX_INVALID_REASON ==
    <<"I","n","v","a","l","i","d"," ","r","e","a","s","o","n","."," ","M","u","s","t"," ","b","e"," ","o","n","e"," ","o","f",":"," ">>
\* index.ts:435  ", "
SEP_COMMA ==
    <<","," ">>
\* index.ts:491  "Stripe API Error: "
LBL_API_ERROR ==
    <<"S","t","r","i","p","e"," ","A","P","I"," ","E","r","r","o","r",":"," ">>
\* index.ts:492  "Error Type: "
LBL_ERROR_TYPE ==
    <<"E","r","r","o","r"," ","T","y","p","e",":"," ">>
\* index.ts:493  "Error Code: "
LBL_ERROR_CODE ==
    <<"E","r","r","o","r"," ","C","o","d","e",":"," ">>
\* index.ts:493  "N/A"
TXT_NA ==
    <<"N","/","A">>
\* index.ts:497  "HTTP Status: "
LBL_HTTP_STATUS ==
    <<"H","T","T","P"," ","S","t","a","t","u","s",":"," ">>
\* index.ts:501  "Request ID: "
LBL_REQUEST_ID ==
    <<"R","e","q","u","e","s","t"," ","I","D",":"," ">>
\* index.ts:505  "Invoice ID: "
LBL_INVOICE_ID ==
    <<"I","n","v","o","i","c","e"," ","I","D",":"," ">>
\* index.ts:506  "Memo: "
LBL_MEMO ==
    <<"M","e","m","o",":"," ">>
\* index.ts:507  "Reason: "
LBL_REASON ==
    <<"R","e","a","s","o","n",":"," ">>
\* index.ts:509  " | "
SEP_BAR ==
    <<" ","|"," ">>
\* index.ts:512  "StripeInvalidRequestError"
T_INVALID_REQUEST ==
    <<"S","t","r","i","p","e","I","n","v","a","l","i","d","R","e","q","u","e","s","t","E","r","r","o","r">>
\* index.ts:514  "No such invoice"
PAT_NO_SUCH_INVOICE ==
    <<"N","o"," ","s","u","c","h"," ","i","n","v","o","i","c","e">>
\* index.ts:517  "Invoice not found: "
PFX_NOT_FOUND ==
    <<"I","n","v","o","i","c","e"," ","n","o","t"," ","f","o","u","n","d",":"," ">>
\* index.ts:517  ". "
SEP_DOT ==
    <<"."," ">>
\* index.ts:520  "already has a credit note"
PAT_ALREADY_CREDITED ==
    <<"a","l","r","e","a","d","y"," ","h","a","s"," ","a"," ","c","r","e","d","i","t"," ","n","o","t","e">>
\* index.ts:523  "Invoice "
PFX_INVOICE ==
    <<"I","n","v","o","i","c","e"," ">>
\* index.ts:523  " already has a credit note or cannot be credited. "
SFX_ALREADY_CREDITED ==
    <<" ","a","l","r","e","a","d","y"," ","h","a","s"," ","a"," ","c","r","e","d","i","t"," ","n","o","t","e"," ","o","r"," ","c","a","n","n","o","t"," ","b","e"," ","c","r","e","d","i","t","e","d","."," ">>
\* index.ts:526  "not paid"
PAT_NOT_PAID ==
    <<"n","o","t"," ","p","a","i","d">>
\* index.ts:529  " must be paid before creating a credit note. "
SFX_MUST_BE_PAID ==
    <<" ","m","u","s","t"," ","b","e"," ","p","a","i","d"," ","b","e","f","o","r","e"," ","c","r","e","a","t","i","n","g"," ","a"," ","c","r","e","d","i","t"," ","n","o","t","e","."," ">>
\* index.ts:535  "StripeAuthenticationError"
T_AUTHENTICATION ==
    <<"S","t","r","i","p","e","A","u","t","h","e","n","t","i","c","a","t","i","o","n","E","r","r","o","r">>
\* index.ts:538  "Authentication failed. Check STRIPE_API_KEY. "
PFX_AUTH_FAILED ==
    <<"A","u","t","h","e","n","t","i","c","a","t","i","o","n"," ","f","a","i","l","e","d","."," ","C","h","e","c","k"," ","S","T","R","I","P","E","_","A","P","I","_","K","E","Y","."," ">>
\* index.ts:542  "StripePermissionError"
T_PERMISSION ==
    <<"S","t","r","i","p","e","P","e","r","m","i","s","s","i","o","n","E","r","r","o","r">>
\* index.ts:545  "Permission denied. API key may lack required permissions. "
PFX_PERMISSION ==
    <<"P","e","r","m","i","s","s","i","o","n"," ","d","e","n","i","e","d","."," ","A","P","I"," ","k","e","y"," ","m","a","y"," ","l","a","c","k"," ","r","e","q","u","i","r","e","d"," ","p","e","r","m","i","s","s","i","o","n","s","."," ">>
\* index.ts:549  "StripeRateLimitError"
T_RATE_LIMIT ==
    <<"S","t","r","i","p","e","R","a","t","e","L","i","m","i","t","E","r","r","o","r">>
\* index.ts:552  "Rate limit exceeded. Please retry after a short delay. "
PFX_RATE_LIMIT ==
    <<"R","a","t","e"," ","l","i","m","i","t"," ","e","x","c","e","e","d","e","d","."," ","P","l","e","a","s","e"," ","r","e","t","r","y"," ","a","f","t","e","r"," ","a"," ","s","h","o","r","t"," ","d","e","l","a","y","."," ">>
\* index.ts:563  ": "
SEP_COLON ==
    <<":"," ">>
\* index.ts:564  "Unknown error: "
PFX_UNKNOWN_THROWN ==
    <<"U","n","k","n","o","w","n"," ","e","r","r","o","r",":"," ">>
\* index.ts:568  "Unexpected error creating credit note for invoice "
PFX_UNEXPECTED_CN ==
    <<"U","n","e","x","p","e","c","t","e","d"," ","e","r","r","o","r"," ","c","r","e","a","t","i","n","g"," ","c","r","e","d","i","t"," ","n","o","t","e"," ","f","o","r"," ","i","n","v","o","i","c","e"," ">>
\* index.ts:574  "Unknown tool: "
PFX_UNKNOWN_TOOL ==
    <<"U","n","k","n","o","w","n"," ","t","o","o","l",":"," ">>
\* index.ts:143  "metadata['"
Q_OPEN ==
    <<"m","e","t","a","d","a","t","a","[","'">>
\* index.ts:143  "']:'"
Q_MID ==
    <<"'","]",":","'">>
\* index.ts:143  "'"
Q_CLOSE ==
    <<"'">>

(***************************************************************************)
(* JavaScript string primitives.                                           *)
(***************************************************************************)
\* String.prototype.includes: needle occurs as a contiguous substring
Includes(s, needle) ==
    \E i \in 0..(Len(s) - Len(needle)) :
        \A j \in 1..Len(needle) : s[i + j] = needle[j]

\* String.prototype.startsWith
StartsWith(s, prefix) ==
    /\ Len(prefix) <= Len(s)
    /\ \A j \in 1..Len(prefix) : s[j] = prefix[j]

\* white space recognised by String.prototype.trim (the model's alphabet
\* has the space character only)
IsSpace(ch) ==
    ch = " "

RECURSIVE TrimStart(_)
TrimStart(s) ==
    IF s # <<>> /\ IsSpace(Head(s)) THEN TrimStart(Tail(s)) ELSE s

RECURSIVE TrimEnd(_)
TrimEnd(s) ==
    IF s # <<>> /\ IsSpace(s[Len(s)])
    THEN TrimEnd(SubSeq(s, 1, Len(s) - 1))
    ELSE s

\* String.prototype.trim
Trim(s) ==
    TrimEnd(TrimStart(s))

\* String.prototype.split(sep) for a one-character separator: the pieces
\* between every occurrence of sep; "" splits into one empty piece
RECURSIVE SplitAcc(_, _, _, _)
SplitAcc(s, sep, cur, acc) ==
    IF s = <<>> THEN Append(acc, cur)
    ELSE IF Head(s) = sep
         THEN SplitAcc(Tail(s), sep, <<>>, Append(acc, cur))
         ELSE SplitAcc(Tail(s), sep, Append(cur, Head(s)), acc)

Split(s, sep) ==
    SplitAcc(s, sep, <<>>, <<>>)

\* Array.prototype.join(sep) on an array of strings
RECURSIVE Join(_, _)
Join(parts, sep) ==
    IF parts = <<>> THEN <<>>
    ELSE IF Len(parts) = 1 THEN parts[1]
    ELSE parts[1] \o sep \o Join(Tail(parts), sep)

\* String.prototype.replace(/"/g, '\\"'): every double quote becomes a
\* backslash followed by a double quote
RECURSIVE EscapeDoubleQuotes(_)
EscapeDoubleQuotes(s) ==
    IF s = <<>> THEN <<>>
    ELSE IF Head(s) = "\""
         THEN <<"\\", "\"">> \o EscapeDoubleQuotes(Tail(s))
         ELSE <<Head(s)>> \o EscapeDoubleQuotes(Tail(s))

(***************************************************************************)
(* buildMetadataSearchQuery.  The result is [ok |-> TRUE, query |-> q] for *)
(* a returned query and [ok |-> FALSE, message |-> m] for a thrown Error   *)
(* with message m.                                                         *)
(***************************************************************************)
QueryOk(q) ==
    [ok |-> TRUE, query |-> q, message |-> <<>>]

QueryError(m) ==
    [ok |-> FALSE, query |-> <<>>, message |-> m]

\* the builder with the value taken from the second piece alone, the
\* pieces after it dropped
buildMetadataSearchQuery_SecondPieceOnly(metadataString) ==
    LET parts == Split(metadataString, ":")
        key   == Trim(parts[1])
        value == Trim(parts[2])
    IN  IF Len(parts) < 2 THEN QueryError(MSG_BAD_FORMAT)
        ELSE IF key = <<>> \/ value = <<>> THEN QueryError(MSG_EMPTY_KV)
        ELSE QueryOk(Q_OPEN \o key \o Q_MID \o EscapeDoubleQuotes(value) \o Q_CLOSE)

buildMetadataSearchQuery(metadataString) ==
    LET parts == Split(metadataString, ":")
        key   == Trim(parts[1])
        value == Trim(Join(Tail(parts), <<":">>))
    IN  IF Len(parts) < 2 THEN QueryError(MSG_BAD_FORMAT)
        ELSE IF key = <<>> \/ value = <<>> THEN QueryError(MSG_EMPTY_KV)
        ELSE QueryOk(Q_OPEN \o key \o Q_MID \o EscapeDoubleQuotes(value) \o Q_CLOSE)

(***************************************************************************)
(* Untyped JavaScript values of the argument mapping.  A value is          *)
(* undefined (the parameter is absent), a string, a number or NaN.         *)
(***************************************************************************)
Undef ==
    [t |-> "undefined", s |-> <<>>, n |-> 0]

Str(chars) ==
    [t |-> "string", s |-> chars, n |-> 0]

Num(k) ==
    [t |-> "number", s |-> <<>>, n |-> k]

NaN ==
    [t |-> "NaN", s |-> <<>>, n |-> 0]

\* ToBoolean, as applied by !x, x || y and if (x)
Truthy(v) ==
    CASE v.t = "string" -> v.s # <<>>
      [] v.t = "number" -> v.n # 0
      [] OTHER          -> FALSE

Digits ==
    <<"0", "1", "2", "3", "4", "5", "6", "7", "8", "9">>

IsDigit(ch) ==
    \E d \in 1..10 : Digits[d] = ch

DigitValue(ch) ==
    (CHOOSE d \in 1..10 : Digits[d] = ch) - 1

RECURSIVE DigitsToNat(_, _)
DigitsToNat(s, acc) ==
    IF s = <<>> THEN acc
    ELSE DigitsToNat(Tail(s), 10 * acc + DigitValue(Head(s)))

\* ToNumber of a value, as Math.min applies it: a string of decimal digits
\* is its number, any other non-blank string of the model is NaN
ToNumber(v) ==
    CASE v.t = "number" -> v
      [] v.t = "string" ->
            IF Trim(v.s) = <<>> THEN Num(0)
            ELSE IF \A i \in 1..Len(v.s) : IsDigit(v.s[i])
                 THEN Num(DigitsToNat(v.s, 0))
                 ELSE NaN
      [] OTHER          -> NaN

\* Math.min(a, b): NaN if either operand converts to NaN
MathMin(a, b) ==
    LET x == ToNumber(a)
        y == ToNumber(b)
    IN  IF x.t = "NaN" \/ y.t = "NaN" THEN NaN
        ELSE IF x.n <= y.n THEN x ELSE y

RECURSIVE NatToString(_)
NatToString(k) ==
    IF k < 10 THEN <<Digits[k + 1]>>
    ELSE NatToString(k \div 10) \o <<Digits[(k % 10) + 1]>>

\* String(v), as a template literal applies it
StringOf(v) ==
    CASE v.t = "string" -> v.s
      [] v.t = "number" ->
            IF v.n < 0 THEN <<"-">> \o NatToString(0 - v.n) ELSE NatToString(v.n)
      [] v.t = "NaN"    -> <<"N", "a", "N">>
      [] OTHER          -> <<"u","n","d","e","f","i","n","e","d">>

(***************************************************************************)
(* Thrown values and handler outcomes.                                     *)
(***************************************************************************)
\* a Stripe.errors.StripeError with its type, message, code, statusCode
\* and requestId (an empty code or requestId and a zero statusCode are
\* the absent ones)
StripeError(type, message, code, statusCode, requestId) ==
    [cls |-> "StripeError", type |-> type, name |-> type, message |-> message,
     code |-> code, statusCode |-> statusCode, requestId |-> requestId]

\* any other Error instance
PlainError(name, message) ==
    [cls |-> "Error", type |-> <<>>, name |-> name, message |-> message,
     code |-> <<>>, statusCode |-> 0, requestId |-> <<>>]

\* a thrown value that is not an Error; message holds String(value)
ThrownValue(text) ==
    [cls |-> "value", type |-> <<>>, name |-> <<>>, message |-> text,
     code |-> <<>>, statusCode |-> 0, requestId |-> <<>>]

NoError ==
    [cls |-> "none", type |-> <<>>, name |-> <<>>, message |-> <<>>,
     code |-> <<>>, statusCode |-> 0, requestId |-> <<>>]

NoText ==
    [of |-> "none", count |-> 0, more |-> FALSE]

NoOutcome ==
    [kind |-> "none", code |-> "", message |-> <<>>, text |-> NoText]

\* new McpError(code, message) thrown to the caller
McpError(code, message) ==
    [kind |-> "McpError", code |-> code, message |-> message, text |-> NoText]

\* an exception that leaves the handler without being an McpError
RawException(err) ==
    [kind |-> "raw", code |-> "", message |-> err.message, text |-> NoText]

\* return { content: [{ type: "text", text }] }
TextResult(text) ==
    [kind |-> "text", code |-> "", message |-> <<>>, text |-> text]

TypeErrorName ==
    <<"T","y","p","e","E","r","r","o","r">>

\* metadataString.split(":") on a value that is not a string
SplitNotAFunction ==
    PlainError(TypeErrorName, <<"m","e","t","a","d","a","t","a","S","t","r","i","n","g",".","s","p","l","i","t"," ","i","s"," ","n","o","t"," ","a"," ","f","u","n","c","t","i","o","n">>)

\* invoiceId.startsWith("in_") on a value that is not a string
StartsWithNotAFunction ==
    PlainError(TypeErrorName, <<"i","n","v","o","i","c","e","I","d",".","s","t","a","r","t","s","W","i","t","h"," ","i","s"," ","n","o","t"," ","a"," ","f","u","n","c","t","i","o","n">>)

\* x.currency.toUpperCase() on a record without currency
CurrencyUndefined ==
    PlainError(TypeErrorName, <<"C","a","n","n","o","t"," ","r","e","a","d"," ","p","r","o","p","e","r","t","i","e","s"," ","o","f"," ","u","n","d","e","f","i","n","e","d"," ","(","r","e","a","d","i","n","g"," ","'","t","o","U","p","p","e","r","C","a","s","e","'",")">>)

(***************************************************************************)
(* Remote requests and responses.                                          *)
(***************************************************************************)
SearchRequest(query, limit, page) ==
    [op |-> "search", query |-> query, limit |-> limit, page |-> page,
     invoice |-> Undef, amount |-> Undef, memo |-> Undef, reason |-> Undef]

RetrieveRequest(invoiceId) ==
    [op |-> "retrieve", query |-> <<>>, limit |-> Undef, page |-> Undef,
     invoice |-> invoiceId, amount |-> Undef, memo |-> Undef, reason |-> Undef]

CreateRequest(invoiceId, amount, memo, reason) ==
    [op |-> "create", query |-> <<>>, limit |-> Undef, page |-> Undef,
     invoice |-> invoiceId, amount |-> amount, memo |-> memo, reason |-> reason]

\* a resolved remote call: the invoice total of a fetch, the size and
\* has_more flag of a search result, and whether the records returned carry
\* their currency
Returned(total, count, more, wellFormed) ==
    [ok |-> TRUE, total |-> total, count |-> count, more |-> more,
     wellFormed |-> wellFormed, err |-> NoError]

\* a rejected remote call
Threw(err) ==
    [ok |-> FALSE, total |-> 0, count |-> 0, more |-> FALSE,
     wellFormed |-> TRUE, err |-> err]

\* where a handler stands after a synchronous stretch of its code: done
\* with an outcome, or suspended on the remote request it has just issued
Finished(result) ==
    [pc |-> "done", outcome |-> result, request |-> <<>>]

Awaiting(at, request) ==
    [pc |-> at, outcome |-> NoOutcome, request |-> <<request>>]

(***************************************************************************)
(* search_invoices.                                                        *)
(***************************************************************************)
\* the error classification of the catch block of search_invoices.  The
\* McpError re-throw has no case here: nothing inside the try block
\* throws an McpError.
ClassifySearchError(error) ==
    IF error.cls = "StripeError"
    THEN IF error.type = T_INVALID_REQUEST
         THEN McpError("InvalidParams", PFX_INVALID_SEARCH \o error.message)
         ELSE McpError("InternalError", PFX_STRIPE_API \o error.message)
    ELSE IF error.cls = "Error" /\ Includes(error.message, NEEDLE_METADATA)
    THEN McpError("InvalidParams", error.message)
    ELSE McpError("InternalError",
                  PFX_UNEXPECTED \o
                  (IF error.cls = "Error" THEN error.message ELSE MSG_UNKNOWN))

\* const limit = (args?.limit as number | undefined) || 10
SearchLimit(args) ==
    IF Truthy(args.limit) THEN args.limit ELSE Num(10)

\* the searchParams passed to stripe.invoices.search
SearchParams(args, searchQuery) ==
    SearchRequest(searchQuery,
                  MathMin(SearchLimit(args), Num(100)),
                  IF Truthy(args.page) THEN args.page ELSE Undef)

\* buildMetadataSearchQuery applied to the untyped metadata argument: on a
\* value that is not a string, .split is not a function
BuildQueryOf(metadataString) ==
    IF metadataString.t = "string"
    THEN LET r == buildMetadataSearchQuery(metadataString.s)
         IN  [ok |-> r.ok, query |-> r.query,
              err |-> IF r.ok THEN NoError ELSE PlainError(<<"E","r","r","o","r">>, r.message)]
    ELSE [ok |-> FALSE, query |-> <<>>, err |-> SplitNotAFunction]

\* search_invoices from its entry to the await of stripe.invoices.search
SearchStart(args) ==
    IF ~Truthy(args.metadata)
    THEN Finished(McpError("InvalidParams", MSG_MISSING_METADATA))
    ELSE LET built == BuildQueryOf(args.metadata)
         IN  IF built.ok
             THEN Awaiting("awaitSearch", SearchParams(args, built.query))
             ELSE Finished(ClassifySearchError(built.err))

\* search_invoices after stripe.invoices.search has settled:
\* formatInvoicesList reads invoice.currency of every invoice returned
AfterSearch(args, resp) ==
    IF ~resp.ok THEN Finished(ClassifySearchError(resp.err))
    ELSE IF resp.count > 0 /\ ~resp.wellFormed
    THEN Finished(ClassifySearchError(CurrencyUndefined))
    ELSE Finished(TextResult([of |-> "invoices", count |-> resp.count,
                              more |-> resp.more]))

(***************************************************************************)
(* create_credit_note.                                                     *)
(***************************************************************************)
validReasons ==
    <<R_DUPLICATE, R_FRAUDULENT, R_ORDER_CHANGE, R_PRODUCT_UNSATISFACTORY>>

\* validReasons.includes(reason): strict equality with one of the strings
ValidReason(reason) ==
    /\ reason.t = "string"
    /\ \E i \in 1..Len(validReasons) : validReasons[i] = reason.s

\* errorDetails.join(" | ")
DetailedMessage(error, args) ==
    Join(<<LBL_API_ERROR \o error.message,
           LBL_ERROR_TYPE \o error.type,
           LBL_ERROR_CODE \o (IF error.code # <<>> THEN error.code ELSE TXT_NA)>>
         \o (IF error.statusCode # 0
             THEN <<LBL_HTTP_STATUS \o NatToString(error.statusCode)>> ELSE <<>>)
         \o (IF error.requestId # <<>>
             THEN <<LBL_REQUEST_ID \o error.requestId>> ELSE <<>>)
         \o <<LBL_INVOICE_ID \o StringOf(args.invoice_id)>>
         \o (IF Truthy(args.memo) THEN <<LBL_MEMO \o StringOf(args.memo)>> ELSE <<>>)
         \o (IF Truthy(args.reason) THEN <<LBL_REASON \o StringOf(args.reason)>> ELSE <<>>),
         SEP_BAR)

\* the StripeInvalidRequestError branch without its "not paid" scenario
InvalidRequestError_NoPaidScenario(error, invoiceId, detailedMessage) ==
    IF Includes(error.message, PAT_NO_SUCH_INVOICE)
    THEN McpError("InvalidParams",
                  PFX_NOT_FOUND \o invoiceId \o SEP_DOT \o detailedMessage)
    ELSE IF Includes(error.message, PAT_ALREADY_CREDITED)
    THEN McpError("InvalidParams",
                  PFX_INVOICE \o invoiceId \o SFX_ALREADY_CREDITED \o detailedMessage)
    ELSE McpError("InvalidParams", detailedMessage)

\* the StripeInvalidRequestError branch of the catch block: the specific
\* scenarios in the order the code tests them, then the generic message
InvalidRequestError(error, invoiceId, detailedMessage) ==
    IF Includes(error.message, PAT_NO_SUCH_INVOICE)
    THEN McpError("InvalidParams",
                  PFX_NOT_FOUND \o invoiceId \o SEP_DOT \o detailedMessage)
    ELSE IF Includes(error.message, PAT_ALREADY_CREDITED)
    THEN McpError("InvalidParams",
                  PFX_INVOICE \o invoiceId \o SFX_ALREADY_CREDITED \o detailedMessage)
    ELSE IF Includes(error.message, PAT_NOT_PAID)
    THEN McpError("InvalidParams",
                  PFX_INVOICE \o invoiceId \o SFX_MUST_BE_PAID \o detailedMessage)
    ELSE McpError("InvalidParams", detailedMessage)

\* the error classification of the catch block of create_credit_note.  The
\* McpError re-throw has no case here: nothing inside the try block
\* throws an McpError.
ClassifyCreateError(error, args) ==
    LET invoiceId       == StringOf(args.invoice_id)
        detailedMessage == DetailedMessage(error, args)
    IN  IF error.cls = "StripeError"
        THEN IF error.type = T_INVALID_REQUEST
             THEN InvalidRequestError(error, invoiceId, detailedMessage)
             ELSE IF error.type = T_AUTHENTICATION
             THEN McpError("InternalError", PFX_AUTH_FAILED \o detailedMessage)
             ELSE IF error.type = T_PERMISSION
             THEN McpError("InternalError", PFX_PERMISSION \o detailedMessage)
             ELSE IF error.type = T_RATE_LIMIT
             THEN McpError("InternalError", PFX_RATE_LIMIT \o detailedMessage)
             ELSE McpError("InternalError", detailedMessage)
        ELSE McpError("InternalError",
                      PFX_UNEXPECTED_CN \o invoiceId \o SEP_COLON \o
                      (IF error.cls = "Error"
                       THEN error.name \o SEP_COLON \o error.message
                       ELSE PFX_UNKNOWN_THROWN \o error.message))

\* create_credit_note from its entry to the await of stripe.invoices.retrieve
CreditStart(args) ==
    IF ~Truthy(args.invoice_id)
    THEN Finished(McpError("InvalidParams", MSG_MISSING_INVOICE_ID))
    ELSE IF args.invoice_id.t # "string"
    THEN Finished(RawException(StartsWithNotAFunction))
    ELSE IF ~StartsWith(args.invoice_id.s, PFX_IN)
    THEN Finished(McpError("InvalidParams", MSG_BAD_INVOICE_ID))
    ELSE IF Truthy(args.reason) /\ ~ValidReason(args.reason)
    THEN Finished(McpError("InvalidParams",
                           PFX_INVALID_REASON \o Join(validReasons, SEP_COMMA)))
    ELSE Awaiting("awaitFetch", RetrieveRequest(args.invoice_id))

\* creditNoteParams that prefer an 'amount' of the arguments to the
\* invoice total
CreditNoteParams_CallerAmount(args, invoice) ==
    CreateRequest(args.invoice_id,
                  IF Truthy(args.amount) THEN args.amount ELSE Num(invoice.total),
                  IF Truthy(args.memo) THEN args.memo ELSE Undef,
                  IF Truthy(args.reason) THEN args.reason ELSE Undef)

\* the creditNoteParams passed to stripe.creditNotes.create
CreditNoteParams(args, invoice) ==
    CreateRequest(args.invoice_id,
                  Num(invoice.total),
                  IF Truthy(args.memo) THEN args.memo ELSE Undef,
                  IF Truthy(args.reason) THEN args.reason ELSE Undef)

\* the continuation of the fetch with its rejection not caught: the
\* creation is issued whether or not the fetch returned
AfterRetrieve_IgnoreFailure(args, resp) ==
    Awaiting("awaitCreate", CreditNoteParams(args, resp))

\* create_credit_note after stripe.invoices.retrieve has settled
AfterRetrieve(args, resp) ==
    IF resp.ok
    THEN Awaiting("awaitCreate", CreditNoteParams(args, resp))
    ELSE Finished(ClassifyCreateError(resp.err, args))

\* create_credit_note after stripe.creditNotes.create has settled:
\* formatCreditNoteResponse reads creditNote.currency
AfterCreate(args, resp) ==
    IF ~resp.ok THEN Finished(ClassifyCreateError(resp.err, args))
    ELSE IF ~resp.wellFormed
    THEN Finished(ClassifyCreateError(CurrencyUndefined, args))
    ELSE Finished(TextResult([of |-> "credit_note", count |-> 1, more |-> FALSE]))

(***************************************************************************)
(* Dispatch.                                                               *)
(***************************************************************************)
SEARCH_INVOICES ==
    <<"s","e","a","r","c","h","_","i","n","v","o","i","c","e","s">>

CREATE_CREDIT_NOTE ==
    <<"c","r","e","a","t","e","_","c","r","e","d","i","t","_","n","o","t","e">>

\* the switch with search_invoices as its default case
ToolCase_DefaultToSearch(name) ==
    IF name = CREATE_CREDIT_NOTE THEN "create_credit_note"
    ELSE "search_invoices"

\* switch (name)
ToolCase(name) ==
    IF name = SEARCH_INVOICES THEN "search_invoices"
    ELSE IF name = CREATE_CREDIT_NOTE THEN "create_credit_note"
    ELSE "default"

\* the handler from its entry to its first await or throw
HandlerStart(name, args) ==
    CASE ToolCase(name) = "search_invoices"    -> SearchStart(args)
      [] ToolCase(name) = "create_credit_note" -> CreditStart(args)
      [] OTHER -> Finished(McpError("MethodNotFound", PFX_UNKNOWN_TOOL \o name))

(***************************************************************************)
(* Inputs: the tool names, argument mappings and remote responses the      *)
(* model draws from.                                                       *)
(***************************************************************************)
CallIds ==
    {1, 2}

\* the invocation that Spec runs; the other one stays idle
SingleCall ==
    {1}

ToolNames ==
    {SEARCH_INVOICES, CREATE_CREDIT_NOTE, <<"f","i","n","d","_","i","n","v","o","i","c","e">>}

MetadataValues ==
    {Undef, Str(<<>>), Str(<<"k",":","v">>), Str(<<"k",":">>), Str(<<":","v">>), Str(<<"k","v">>),
     Str(<<"k",":","a","'","b">>), Str(<<" ","k"," ",":"," ","a",":","b"," ">>), Num(5)}

LimitValues ==
    {Undef, Num(0), Num(-5), Num(1), Num(50), Num(100), Num(101), Num(500),
     Str(<<"a","b","c">>), Str(<<"5","0">>)}

PageValues ==
    {Undef, Str(<<"p","1">>)}

InvoiceIdValues ==
    {Undef, Str(<<>>), Str(<<"i","n","_","1">>), Str(<<"i","n","_">>), Str(<<"i","n","_","a","-","b">>),
     Str(<<"i","i","_","1">>), Num(5)}

MemoValues ==
    {Undef, Str(<<"m">>)}

ReasonValues ==
    {Undef, Str(<<>>), Str(R_DUPLICATE), Str(R_ORDER_CHANGE), Str(<<"b","o","g","u","s">>), Num(5)}

\* a parameter no input schema declares
AmountValues ==
    {Undef, Num(999)}

Args(metadata, limit, page, invoice_id, memo, reason, amount) ==
    [metadata |-> metadata, limit |-> limit, page |-> page,
     invoice_id |-> invoice_id, memo |-> memo, reason |-> reason,
     amount |-> amount]

NoArgs ==
    Args(Undef, Undef, Undef, Undef, Undef, Undef, Undef)

\* mappings that vary the parameters of search_invoices
SearchArgs ==
    {Args(m, l, p, Undef, Undef, Undef, Undef) :
        m \in MetadataValues, l \in LimitValues, p \in PageValues}

\* mappings that vary the parameters of create_credit_note
CreditArgs ==
    {Args(Undef, Undef, Undef, i, m, r, a) :
        i \in InvoiceIdValues, m \in MemoValues, r \in ReasonValues,
        a \in AmountValues}

\* mappings that carry the parameters of both tools
MixedArgs ==
    {Args(Str(<<"k",":","v">>), l, Undef, Str(<<"i","n","_","1">>), Undef, Undef, a) :
        l \in {Undef, Num(500)}, a \in AmountValues}

ArgMappings ==
    SearchArgs \cup CreditArgs \cup MixedArgs

InvalidRequestMessages ==
    {<<"N","o"," ","s","u","c","h"," ","i","n","v","o","i","c","e">>, <<"I","n","v","o","i","c","e"," ","a","l","r","e","a","d","y"," ","h","a","s"," ","a"," ","c","r","e","d","i","t"," ","n","o","t","e">>,
     <<"I","n","v","o","i","c","e"," ","i","s"," ","n","o","t"," ","p","a","i","d">>, <<"N","o"," ","s","u","c","h"," ","i","n","v","o","i","c","e"," ","t","h","a","t"," ","i","s"," ","n","o","t"," ","p","a","i","d">>,
     <<"B","a","d"," ","r","e","q","u","e","s","t">>}

\* what a remote call can reject with
RemoteErrors ==
    {StripeError(T_INVALID_REQUEST, m, <<"r","e","s","o","u","r","c","e","_","m","i","s","s","i","n","g">>, 404, <<"r","e","q","_","1">>) :
        m \in InvalidRequestMessages}
    \cup
    {StripeError(t, <<"I","n","v","o","i","c","e"," ","i","s"," ","n","o","t"," ","p","a","i","d">>, <<>>, 0, <<>>) :
        t \in {T_AUTHENTICATION, T_PERMISSION, T_RATE_LIMIT, <<"S","t","r","i","p","e","A","P","I","E","r","r","o","r">>}}
    \cup
    {PlainError(<<"E","r","r","o","r">>, <<"s","o","c","k","e","t"," ","h","a","n","g"," ","u","p">>),
     PlainError(<<"E","r","r","o","r">>, <<"b","a","d"," ","m","e","t","a","d","a","t","a">>),
     ThrownValue(<<"b","o","o","m">>)}

NoRequest ==
    [name |-> <<>>, args |-> NoArgs]

(***************************************************************************)
(* The handler as a state machine.  For every invocation c: pc[c] is where *)
(* the handler stands, req[c] the request it serves, issued[c] the remote  *)
(* requests it has issued, responses[c] what they settled with, and        *)
(* outcome[c] what the caller receives.                                    *)
(***************************************************************************)
Init ==
    /\ pc = [c \in CallIds |-> "idle"]
    /\ req = [c \in CallIds |-> NoRequest]
    /\ issued = [c \in CallIds |-> <<>>]
    /\ responses = [c \in CallIds |-> <<>>]
    /\ outcome = [c \in CallIds |-> NoOutcome]
    /\ qInput = <<>>
    /\ qResult = QueryError(<<>>)

\* the state of invocation c after a synchronous stretch that ends in step
Advance(c, step) ==
    /\ pc' = [pc EXCEPT ![c] = step.pc]
    /\ issued' = [issued EXCEPT ![c] = @ \o step.request]
    /\ outcome' = [outcome EXCEPT ![c] = step.outcome]

\* a tools/call request arrives: the handler runs to its first await or throw
Invoke(c, name, args) ==
    /\ pc[c] = "idle"
    /\ req' = [req EXCEPT ![c] = [name |-> name, args |-> args]]
    /\ Advance(c, HandlerStart(name, args))
    /\ UNCHANGED <<responses, qInput, qResult>>

\* the await of a remote call settles with resp and the handler resumes
Settle(c, resp, step) ==
    /\ responses' = [responses EXCEPT ![c] = Append(@, resp)]
    /\ Advance(c, step)
    /\ UNCHANGED <<req, qInput, qResult>>

SearchReturns(c, count, more, wellFormed) ==
    /\ pc[c] = "awaitSearch"
    /\ LET resp == Returned(0, count, more, wellFormed)
       IN  Settle(c, resp, AfterSearch(req[c].args, resp))

SearchThrows(c, err) ==
    /\ pc[c] = "awaitSearch"
    /\ Settle(c, Threw(err), AfterSearch(req[c].args, Threw(err)))

\* the fetch continued with an invoice shared between invocations: the
\* one another in-flight invocation has fetched, when there is one
RetrieveReturns_SharedInvoice(c, total) ==
    /\ pc[c] = "awaitFetch"
    /\ LET resp   == Returned(total, 1, FALSE, TRUE)
           others == {d \in CallIds \ {c} : pc[d] = "awaitCreate"}
           shared == IF others = {} THEN resp
                     ELSE responses[CHOOSE d \in others : TRUE][1]
       IN  Settle(c, resp, AfterRetrieve(req[c].args, shared))

RetrieveReturns(c, total) ==
    /\ pc[c] = "awaitFetch"
    /\ LET resp == Returned(total, 1, FALSE, TRUE)
       IN  Settle(c, resp, AfterRetrieve(req[c].args, resp))

RetrieveThrows(c, err) ==
    /\ pc[c] = "awaitFetch"
    /\ Settle(c, Threw(err), AfterRetrieve(req[c].args, Threw(err)))

CreateReturns(c, wellFormed) ==
    /\ pc[c] = "awaitCreate"
    /\ LET resp == Returned(responses[c][1].total, 1, FALSE, wellFormed)
       IN  Settle(c, resp, AfterCreate(req[c].args, resp))

CreateThrows(c, err) ==
    /\ pc[c] = "awaitCreate"
    /\ Settle(c, Threw(err), AfterCreate(req[c].args, Threw(err)))

Next ==
    \E c \in SingleCall :
        \/ \E name \in ToolNames, args \in ArgMappings : Invoke(c, name, args)
        \/ \E count \in 0..MaxResults, more \in BOOLEAN, wellFormed \in BOOLEAN :
              SearchReturns(c, count, more, wellFormed)
        \/ \E err \in RemoteErrors : SearchThrows(c, err)
        \/ \E total \in 0..MaxTotal : RetrieveReturns(c, total)
        \/ \E err \in RemoteErrors : RetrieveThrows(c, err)
        \/ \E wellFormed \in BOOLEAN : CreateReturns(c, wellFormed)
        \/ \E err \in RemoteErrors : CreateThrows(c, err)

Spec ==
    Init /\ [][Next]_vars

(***************************************************************************)
(* Invocations in flight at once.  The handler is an async function: each  *)
(* await hands control back to the event loop, so the requests and the     *)
(* settlements of all invocations interleave in any order.  SpecConcurrent *)
(* runs every invocation of CallIds, with inputs that reach every path of  *)
(* both tools.                                                             *)
(***************************************************************************)
ConcurrentArgs ==
    {Args(m, l, Undef, Undef, Undef, Undef, Undef) :
        m \in {Str(<<"k",":","v">>), Str(<<"k",":">>)}, l \in {Undef, Num(500)}}
    \cup
    {Args(Undef, Undef, Undef, i, Undef, r, a) :
        i \in {Str(<<"i","n","_","1">>), Str(<<"i","n","_","2">>), Num(5)},
        r \in {Undef, Str(<<"b","o","g","u","s">>)},
        a \in AmountValues}

ConcurrentErrors ==
    {StripeError(T_INVALID_REQUEST, <<"I","n","v","o","i","c","e"," ","i","s"," ","n","o","t"," ","p","a","i","d">>, <<>>, 0, <<>>),
     StripeError(T_RATE_LIMIT, <<"T","o","o"," ","m","a","n","y"," ","r","e","q","u","e","s","t","s">>, <<>>, 429, <<>>),
     PlainError(<<"E","r","r","o","r">>, <<"s","o","c","k","e","t"," ","h","a","n","g"," ","u","p">>)}

NextConcurrent ==
    \E c \in CallIds :
        \/ \E name \in ToolNames, args \in ConcurrentArgs : Invoke(c, name, args)
        \/ \E count \in 0..MaxResults, more \in BOOLEAN, wellFormed \in BOOLEAN :
              SearchReturns(c, count, more, wellFormed)
        \/ \E err \in ConcurrentErrors : SearchThrows(c, err)
        \/ \E total \in 0..MaxTotal : RetrieveReturns(c, total)
        \/ \E err \in ConcurrentErrors : RetrieveThrows(c, err)
        \/ \E wellFormed \in BOOLEAN : CreateReturns(c, wellFormed)
        \/ \E err \in ConcurrentErrors : CreateThrows(c, err)

SpecConcurrent ==
    Init /\ [][NextConcurrent]_vars

(***************************************************************************)
(* buildMetadataSearchQuery as a function of its input: SpecQuery draws    *)
(* the input from every string of at most MaxLen characters and applies    *)
(* the builder to it.                                                      *)
(***************************************************************************)
QueryAlphabet ==
    {"a", ":", " ", "'", "\""}

QueryInputs ==
    UNION {[1..n -> QueryAlphabet] : n \in 0..MaxLen}

InitQuery ==
    /\ pc = [c \in CallIds |-> "idle"]
    /\ req = [c \in CallIds |-> NoRequest]
    /\ issued = [c \in CallIds |-> <<>>]
    /\ responses = [c \in CallIds |-> <<>>]
    /\ outcome = [c \in CallIds |-> NoOutcome]
    /\ qInput \in QueryInputs
    /\ qResult = QueryError(<<>>)

\* one call of buildMetadataSearchQuery(qInput)
BuildQuery ==
    /\ pc[1] = "idle"
    /\ pc' = [pc EXCEPT ![1] = "built"]
    /\ qResult' = buildMetadataSearchQuery(qInput)
    /\ UNCHANGED <<req, issued, responses, outcome, qInput>>

NextQuery ==
    BuildQuery

SpecQuery ==
    InitQuery /\ [][NextQuery]_vars

(***************************************************************************)
(* Vocabulary of the properties.                                           *)
(***************************************************************************)
Started(c) ==
    pc[c] # "idle"

Done(c) ==
    pc[c] = "done"

IsCreditCall(c) ==
    Started(c) /\ req[c].name = CREATE_CREDIT_NOTE

IsSearchCall(c) ==
    Started(c) /\ req[c].name = SEARCH_INVOICES

EndsWith(c, code) ==
    Done(c) /\ outcome[c].kind = "McpError" /\ outcome[c].code = code

\* the characters [a-zA-Z0-9] of the invoice_id pattern
Alphanumerics ==
    {"a", "b", "c", "d", "e", "f", "g", "h", "i", "j", "k", "l", "m", "n",
     "o", "p", "q", "r", "s", "t", "u", "v", "w", "x", "y", "z", "A", "B",
     "C", "D", "E", "F", "G", "H", "I", "J", "K", "L", "M", "N", "O", "P",
     "Q", "R", "S", "T", "U", "V", "W", "X", "Y", "Z", "0", "1", "2", "3",
     "4", "5", "6", "7", "8", "9"}

\* inputSchema of create_credit_note: pattern "^in_[a-zA-Z0-9]+$"
MatchesInvoicePattern(v) ==
    /\ v.t = "string"
    /\ StartsWith(v.s, PFX_IN)
    /\ Len(v.s) > Len(PFX_IN)
    /\ \A i \in (Len(PFX_IN) + 1)..Len(v.s) : v.s[i] \in Alphanumerics

\* inputSchema of create_credit_note: enum of reason
InReasonEnum(v) ==
    /\ v.t = "string"
    /\ v.s \in {R_DUPLICATE, R_FRAUDULENT, R_ORDER_CHANGE, R_PRODUCT_UNSATISFACTORY}

\* the position of the first ':' of s, 0 if there is none
FirstColon(s) ==
    IF \E i \in 1..Len(s) : s[i] = ":"
    THEN CHOOSE i \in 1..Len(s) : s[i] = ":" /\ \A j \in 1..(i - 1) : s[j] # ":"
    ELSE 0

\* s without its leading and trailing spaces
Stripped(s) ==
    LET inked == {i \in 1..Len(s) : s[i] # " "}
    IN  IF inked = {} THEN <<>>
        ELSE SubSeq(s, CHOOSE i \in inked : \A j \in inked : i <= j,
                       CHOOSE i \in inked : \A j \in inked : j <= i)

\* the key and the value the claims speak of: the text before and after
\* the first ':', stripped
KeyOf(s) ==
    Stripped(SubSeq(s, 1, FirstColon(s) - 1))

ValueOf(s) ==
    Stripped(SubSeq(s, FirstColon(s) + 1, Len(s)))

HasQuote(s) ==
    \E i \in 1..Len(s) : s[i] \in {"'", "\""}

----------------------------------------------------------------------------
\* C1: every credit-note creation request carries the total returned by
\* the invoice fetch that the same invocation made just before it, for
\* the same invoice id, whatever the arguments hold (an extra 'amount'
\* included).
C1_FullCreditOnly ==
    \A c \in CallIds : \A i \in 1..Len(issued[c]) :
        issued[c][i].op = "create" =>
            /\ i > 1
            /\ issued[c][i - 1].op = "retrieve"
            /\ issued[c][i - 1].invoice = issued[c][i].invoice
            /\ issued[c][i].invoice = req[c].args.invoice_id
            /\ Len(responses[c]) >= i - 1
            /\ responses[c][i - 1].ok
            /\ issued[c][i].amount = Num(responses[c][i - 1].total)

\* a creation request was issued by an invocation whose arguments carry
\* an 'amount' that differs from the fetched total
C1_Witness ==
    \E c \in CallIds :
        /\ Truthy(req[c].args.amount)
        /\ Len(issued[c]) = 2
        /\ issued[c][2].op = "create"
        /\ responses[c][1].total > 0
        /\ req[c].args.amount # Num(responses[c][1].total)

\* C2: a create_credit_note invocation whose invoice_id is missing, empty
\* or off the pattern in_[a-zA-Z0-9]+, or whose supplied reason is outside
\* the enum, ends with InvalidParams and issues no remote call.  (Stated for
\* an invoice_id that is absent or a string.)
C2_RejectsBadInput ==
    \A c \in CallIds :
        ( /\ IsCreditCall(c)
          /\ req[c].args.invoice_id.t \in {"undefined", "string"}
          /\ \/ ~MatchesInvoicePattern(req[c].args.invoice_id)
             \/ /\ req[c].args.reason.t # "undefined"
                /\ ~InReasonEnum(req[c].args.reason) )
        => /\ issued[c] = <<>>
           /\ EndsWith(c, "InvalidParams")

\* C3: a search_invoices invocation whose metadata string fails query
\* building ends with InvalidParams carrying the builder's message, and
\* issues no remote search.
C3_BuilderFailureIsInvalidParams ==
    \A c \in CallIds :
        ( /\ IsSearchCall(c)
          /\ req[c].args.metadata.t = "string"
          /\ req[c].args.metadata.s # <<>>
          /\ \/ FirstColon(req[c].args.metadata.s) = 0
             \/ KeyOf(req[c].args.metadata.s) = <<>>
             \/ ValueOf(req[c].args.metadata.s) = <<>> )
        => /\ issued[c] = <<>>
           /\ EndsWith(c, "InvalidParams")
           /\ outcome[c].message =
                 buildMetadataSearchQuery(req[c].args.metadata.s).message

\* C4: every invocation that has ended has exactly one outcome, a rendered
\* text or an McpError of kind InvalidParams, MethodNotFound or
\* InternalError, and never a raw exception; an invocation that has not
\* ended has no outcome yet.
C4_AlwaysClassified ==
    \A c \in CallIds :
        IF Done(c)
        THEN \/ outcome[c].kind = "text"
             \/ /\ outcome[c].kind = "McpError"
                /\ outcome[c].code \in {"InvalidParams", "MethodNotFound", "InternalError"}
        ELSE outcome[c] = NoOutcome

\* the remote failures of invocation c that are invalid-request errors
\* whose message contains "not paid"
NotPaidFailures(c) ==
    {i \in 1..Len(responses[c]) :
        /\ ~responses[c][i].ok
        /\ responses[c][i].err.cls = "StripeError"
        /\ responses[c][i].err.type = T_INVALID_REQUEST
        /\ Includes(responses[c][i].err.message, PAT_NOT_PAID)}

\* the outcome of c is InvalidParams with the paid-status message for the
\* invoice id of the request
PaidStatusOutcome(c) ==
    /\ EndsWith(c, "InvalidParams")
    /\ StartsWith(outcome[c].message,
                  PFX_INVOICE \o StringOf(req[c].args.invoice_id) \o SFX_MUST_BE_PAID)

\* C5 as claimed: whenever a remote call of any operation fails with an
\* invalid-request error whose message contains "not paid", the invocation
\* ends with InvalidParams carrying the paid-status message.
C5_NotPaidAnyOperation ==
    \A c \in CallIds : NotPaidFailures(c) # {} => PaidStatusOutcome(c)

\* C5 as amended: whenever a remote call of create_credit_note fails with
\* an invalid-request error whose message contains "not paid" and neither
\* "No such invoice" nor "already has a credit note", the invocation ends
\* with InvalidParams carrying the paid-status message; the same failure of
\* the remote search of search_invoices ends with InvalidParams carrying
\* "Invalid search query: " and the remote message.
C5_NotPaidInCreditNote ==
    \A c \in CallIds : \A i \in NotPaidFailures(c) :
        /\ ( /\ IsCreditCall(c)
             /\ ~Includes(responses[c][i].err.message, PAT_NO_SUCH_INVOICE)
             /\ ~Includes(responses[c][i].err.message, PAT_ALREADY_CREDITED) )
           => PaidStatusOutcome(c)
        /\ IsSearchCall(c)
           => /\ EndsWith(c, "InvalidParams")
              /\ outcome[c].message = PFX_INVALID_SEARCH \o responses[c][i].err.message

\* the creation request of a create_credit_note invocation failed with a
\* "not paid" invalid-request error and the paid-status message came out
C5_Witness ==
    \E c \in CallIds :
        /\ IsCreditCall(c)
        /\ 2 \in NotPaidFailures(c)
        /\ PaidStatusOutcome(c)

\* C6: the limit of every remote search lies within 1..100: 10 when the
\* caller gave none, 100 when the caller's number is above 100, and the
\* caller's number when it is within 1..100.
C6_LimitWithinRange ==
    \A c \in CallIds : \A i \in 1..Len(issued[c]) :
        issued[c][i].op = "search" =>
            LET sent  == issued[c][i].limit
                given == req[c].args.limit
            IN  /\ sent.t = "number"
                /\ sent.n \in 1..100
                /\ given.t = "undefined" => sent.n = 10
                /\ (given.t = "number" /\ given.n > 100) => sent.n = 100
                /\ (given.t = "number" /\ given.n \in 1..100) => sent.n = given.n

\* C7: an invocation whose name is neither search_invoices nor
\* create_credit_note ends with MethodNotFound and issues no remote call.
C7_UnknownToolNoRemoteCall ==
    \A c \in CallIds :
        ( /\ Started(c)
          /\ req[c].name # SEARCH_INVOICES
          /\ req[c].name # CREATE_CREDIT_NOTE )
        => /\ EndsWith(c, "MethodNotFound")
           /\ issued[c] = <<>>
           /\ responses[c] = <<>>

\* an unknown tool was invoked with arguments that would be valid for
\* both tools
C7_Witness ==
    \E c \in CallIds :
        /\ Started(c)
        /\ req[c].name \notin {<<>>, SEARCH_INVOICES, CREATE_CREDIT_NOTE}
        /\ Truthy(req[c].args.metadata)
        /\ MatchesInvoicePattern(req[c].args.invoice_id)
        /\ EndsWith(c, "MethodNotFound")

\* C8: for an input with a ':' whose key and value are non-empty after
\* trimming and free of quote characters, buildMetadataSearchQuery returns
\* exactly metadata['<key>']:'<value>', the key being the trimmed text
\* before the first ':' and the value the trimmed text after it.
C8_ExactQuery ==
    ( /\ pc[1] = "built"
      /\ FirstColon(qInput) > 0
      /\ KeyOf(qInput) # <<>>
      /\ ValueOf(qInput) # <<>>
      /\ ~HasQuote(KeyOf(qInput))
      /\ ~HasQuote(ValueOf(qInput)) )
    => /\ qResult.ok
       /\ qResult.query =
             <<"m","e","t","a","d","a","t","a","[","'">> \o KeyOf(qInput)
             \o <<"'","]",":","'">> \o ValueOf(qInput) \o <<"'">>

\* the builder has run on an input with a padded key and a value that
\* holds a second ':'
C8_Witness ==
    /\ pc[1] = "built"
    /\ qResult.ok
    /\ qInput[1] = " "
    /\ ~HasQuote(qInput)
    /\ \E i \in 1..Len(ValueOf(qInput)) : ValueOf(qInput)[i] = ":"

\* C9: in every query returned by buildMetadataSearchQuery, every single
\* quote between the opening and the closing quote of the value is
\* preceded by a backslash.
C9_DelimiterEscaped ==
    (pc[1] = "built" /\ qResult.ok) =>
        LET q     == qResult.query
            first == Len(Q_OPEN) + Len(KeyOf(qInput)) + Len(Q_MID) + 1
        IN  \A i \in first..(Len(q) - 1) :
                q[i] = "'" => (i > first /\ q[i - 1] = "\\")

\* C10: a creation request is issued only as the second request of its
\* invocation, after a fetch that returned; an invocation issues at most
\* one fetch, one creation and one search; and nothing is issued after a
\* remote call has failed.
C10_FetchThenCreateNoRetry ==
    \A c \in CallIds :
        /\ \A i \in 1..Len(issued[c]) :
              issued[c][i].op = "create" =>
                  /\ i = 2
                  /\ issued[c][1].op = "retrieve"
                  /\ Len(responses[c]) >= 1
                  /\ responses[c][1].ok
        /\ \A op \in {"search", "retrieve", "create"} :
              Cardinality({i \in 1..Len(issued[c]) : issued[c][i].op = op}) <= 1
        /\ IsSearchCall(c) => \A i \in 1..Len(issued[c]) : issued[c][i].op = "search"
        /\ IsCreditCall(c) => \A i \in 1..Len(issued[c]) : issued[c][i].op # "search"
        /\ \A j \in 1..Len(responses[c]) :
              ~responses[c][j].ok => (Len(issued[c]) = j /\ Done(c))

\* the fetch of a create_credit_note invocation failed and the invocation
\* ended with that single request issued
C10_Witness ==
    \E c \in CallIds :
        /\ IsCreditCall(c)
        /\ Done(c)
        /\ Len(responses[c]) = 1
        /\ ~responses[c][1].ok
        /\ issued[c] = <<RetrieveRequest(req[c].args.invoice_id)>>

\* what an invocation has received: its request and the settlements of
\* its own remote calls
InputsOf(c) ==
    <<req[c], responses[c]>>

\* what an invocation has done: where it stands, the requests it has
\* issued and its outcome
EffectsOf(c) ==
    <<pc[c], issued[c], outcome[c]>>

\* in every state, the amount of a creation request is the total that
\* the same invocation fetched, and two invocations that have received
\* the same request and the same settlements have done the same
OwnInputsDecide ==
    /\ \A c \in CallIds : \A i \in 1..Len(issued[c]) :
          issued[c][i].op = "create" =>
              /\ Len(responses[c]) >= 1
              /\ responses[c][1].ok
              /\ issued[c][i].amount = Num(responses[c][1].total)
              /\ issued[c][i].invoice = req[c].args.invoice_id
    /\ \A c, d \in CallIds : InputsOf(c) = InputsOf(d) => EffectsOf(c) = EffectsOf(d)

\* in every step, an invocation that receives nothing stays as it is,
\* and at most one invocation receives something
OthersUntouched ==
    /\ \A c \in CallIds : InputsOf(c)' = InputsOf(c) => EffectsOf(c)' = EffectsOf(c)
    /\ \A c, d \in CallIds :
          (InputsOf(c)' # InputsOf(c) /\ InputsOf(d)' # InputsOf(d)) => c = d

\* C11: with several invocations in flight and their remote calls
\* settling in any order, what an invocation issues and ends with depends
\* on its own request and the settlements of its own remote calls only;
\* the amount of a creation request is the total fetched by the same
\* invocation; and no step of one invocation changes another.
C11_InvocationsIndependent ==
    []OwnInputsDecide /\ [][OthersUntouched]_vars

\* two create_credit_note invocations are in flight at once, each with
\* its creation request issued, having fetched different totals
C11_Witness ==
    \E c, d \in CallIds :
        /\ c # d
        /\ pc[c] = "awaitCreate"
        /\ pc[d] = "awaitCreate"
        /\ responses[c][1].total # responses[d][1].total
        /\ issued[c][2].amount = Num(responses[c][1].total)
        /\ issued[d][2].amount = Num(responses[d][1].total)


====
